---------------------------- MODULE Spec2Model ----------------------------
(***************************************************************************)
(* Model of index.js of cloud-run-crud-app: the startup sequence           *)
(* (app.listen / initDatabase), the validator validateUser and the five    *)
(* resource handlers over the users table.                                 *)
(*                                                                         *)
(* JavaScript values are records [t, n, s]:                                *)
(*   t  the type tag: undefined, null, boolean, number, string, object     *)
(*   n  for a number its value in HALVES (50 is 25, 5 is 2.5), so that a   *)
(*      non-integer number exists in the model; for a boolean 0 or 1       *)
(*   s  for a string its characters, a sequence over Chars                 *)
(* The storage driver is modelled by its contract: a statement either      *)
(* takes effect atomically and returns its result, or throws StorageErr.   *)
(***************************************************************************)
EXTENDS Integers, Sequences, FiniteSets, TLC

\* ------------------------------------------------------------- bounds
MaxLen == 2          \* longest age string the validator specification draws
MaxNameLen == 3      \* longest fullname / study_level string it draws
MaxIds == 2          \* ids a client can name / uuidv4 can generate
MaxSlots == 2        \* update requests that can be in flight together
MaxRequests == 2     \* requests received in one execution
MaxRetriesArg == 10  \* largest argument retries of initDatabase drawn

\* -------------------------------------------------- program constants
DefaultRetries == 10
MinFullname == 2
MinStudyLevel == 1
MinAge == 0
MaxAge == 150

\* --------------------------------------------------------- JS values
Chars == {" ", "a", "5", "-"}

Undefined == [t |-> "undefined", n |-> 0, s |-> <<>>]
Null == [t |-> "null", n |-> 0, s |-> <<>>]
JsObject == [t |-> "object", n |-> 0, s |-> <<>>]
Bool(b) == [t |-> "boolean", n |-> IF b THEN 1 ELSE 0, s |-> <<>>]
\* the number h/2
Num(h) == [t |-> "number", n |-> h, s |-> <<>>]
Int2(k) == Num(2 * k)
Str(chars) == [t |-> "string", n |-> 0, s |-> chars]

\* String.prototype.trim on a character sequence
RECURSIVE TrimLeft(_)
TrimLeft(cs) ==
  IF cs # <<>> /\ Head(cs) = " " THEN TrimLeft(Tail(cs)) ELSE cs

RECURSIVE TrimRight(_)
TrimRight(cs) ==
  IF cs # <<>> /\ cs[Len(cs)] = " "
    THEN TrimRight(SubSeq(cs, 1, Len(cs) - 1))
    ELSE cs

trim(cs) == TrimRight(TrimLeft(cs))

DigitVal(c) == IF c = "5" THEN 5 ELSE -1

RECURSIVE Digits(_, _)
\* the value of an all-digit sequence, -1 when some character is no digit
Digits(cs, acc) ==
  IF cs = <<>> THEN acc
  ELSE IF DigitVal(Head(cs)) < 0 THEN -1
  ELSE Digits(Tail(cs), 10 * acc + DigitVal(Head(cs)))

\* a converted number: NaN, or the value h/2
NaN == [nan |-> TRUE, h |-> 0]
Halves(h) == [nan |-> FALSE, h |-> h]

\* StringToNumber over Chars: whitespace is trimmed, the empty string is 0,
\* an optional "-" and decimal digits give an integer, the rest is NaN
StringToNumber(cs) ==
  LET w == trim(cs)
      neg == w # <<>> /\ Head(w) = "-"
      ds == IF neg THEN Tail(w) ELSE w
  IN  IF w = <<>> THEN Halves(0)
      ELSE IF ds = <<>> \/ Digits(ds, 0) < 0 THEN NaN
      ELSE IF neg THEN Halves(-2 * Digits(ds, 0)) ELSE Halves(2 * Digits(ds, 0))

\* Number(v)
Number(v) ==
  CASE v.t = "undefined" -> NaN
    [] v.t = "null" -> Halves(0)
    [] v.t = "boolean" -> Halves(2 * v.n)
    [] v.t = "number" -> Halves(v.n)
    [] v.t = "string" -> StringToNumber(v.s)
    [] OTHER -> NaN

IsNaN(x) == x.nan
IsInteger(x) == ~x.nan /\ x.h % 2 = 0
\* v < k and v > k for an integer k: the relational operators convert v as
\* Number does, and are false on NaN
Lt(v, k) == ~Number(v).nan /\ Number(v).h < 2 * k
Gt(v, k) == ~Number(v).nan /\ Number(v).h > 2 * k
\* Number(v) of a value that passed validation, as the integer it is
AsInt(v) == Number(v).h \div 2

\* !v
Falsy(v) ==
  \/ v.t \in {"undefined", "null"}
  \/ v.t = "boolean" /\ v.n = 0
  \/ v.t = "number" /\ v.n = 0
  \/ v.t = "string" /\ v.s = <<>>

\* a request body / validateUser argument: kind is the typeof-level shape,
\* the three fields are those the destructuring reads (Undefined when absent)
Obj(f, s, a) == [kind |-> "object", fullname |-> f, study_level |-> s, age |-> a]
NonObj(k) == [kind |-> k, fullname |-> Undefined, study_level |-> Undefined, age |-> Undefined]

\* ------------------------------------------------------- validateUser
ErrPayload == "Payload invalid"
ErrFullname == "fullname is required (string min 2 chars)"
ErrStudyLevel == "study_level is required (string)"
ErrAgeNumber == "age is required and must be a number"
ErrAgeRange == "age must be an integer between 0 and 150"

FullnameErrors(fullname) ==
  IF Falsy(fullname) \/ fullname.t # "string" \/ Len(trim(fullname.s)) < MinFullname
    THEN <<ErrFullname>> ELSE <<>>

StudyLevelErrors(study_level) ==
  IF Falsy(study_level) \/ study_level.t # "string"
       \/ Len(trim(study_level.s)) < MinStudyLevel
    THEN <<ErrStudyLevel>> ELSE <<>>

AgeErrorsNoUpper(age) ==
  IF age.t \in {"undefined", "null"} \/ IsNaN(Number(age))
    THEN <<ErrAgeNumber>>
  ELSE IF ~IsInteger(Number(age)) \/ Lt(age, MinAge)
    THEN <<ErrAgeRange>> ELSE <<>>

AgeErrors(age) ==
  IF age.t \in {"undefined", "null"} \/ IsNaN(Number(age))
    THEN <<ErrAgeNumber>>
  ELSE IF ~IsInteger(Number(age)) \/ Lt(age, MinAge) \/ Gt(age, MaxAge)
    THEN <<ErrAgeRange>> ELSE <<>>

validateUserFirstOnly(userData) ==
  IF userData.kind \notin {"object", "array"}
    THEN [valid |-> FALSE, errors |-> <<ErrPayload>>]
    ELSE LET all == FullnameErrors(userData.fullname)
                      \o StudyLevelErrors(userData.study_level)
                      \o AgeErrors(userData.age)
             errors == IF all = <<>> THEN all ELSE <<Head(all)>>
         IN  [valid |-> errors = <<>>, errors |-> errors]

\* kind "array" is typeof 'object' and truthy: its three fields read undefined
validateUser(userData) ==
  IF userData.kind \notin {"object", "array"}
    THEN [valid |-> FALSE, errors |-> <<ErrPayload>>]
    ELSE LET errors == FullnameErrors(userData.fullname)
                         \o StudyLevelErrors(userData.study_level)
                         \o AgeErrors(userData.age)
         IN  [valid |-> errors = <<>>, errors |-> errors]

\* ------------------------------------------------------------- state
VARIABLES
  phase,      \* startup: NotStarted, Connecting, Ready, Failed (process exited)
  initPc,     \* where initDatabase stands: "try" (about to attempt), "delay"
  retriesArg, \* history: the argument retries initDatabase was called with
  retries,    \* initDatabase's local variable retries
  attempts,   \* history: attempts initDatabase has made
  listening,  \* app.listen has bound the port
  users,      \* the rows of table users
  issued,     \* the uuids uuidv4 has generated
  pending,    \* PUT requests suspended between their SELECT and their UPDATE
  last,       \* the request answered last: its input, response and log record
  reqCount,   \* requests received
  vIn,        \* validator specification: the argument of validateUser
  vOut        \* validator specification: its result

vars == <<phase, initPc, retriesArg, retries, attempts, listening, users,
          issued, pending, last, reqCount, vIn, vOut>>
startupVars == <<phase, initPc, retriesArg, retries, attempts, listening>>

Ids == 1..MaxIds
Slots == 1..MaxSlots

\* ------------------------------------------------------------ inputs
NameA == Str(<<" ", "a", "a", " ">>)
NameB == Str(<<"a", " ", "a">>)
LevelA == Str(<<"a">>)
LevelB == Str(<<" ", "5">>)

\* the request bodies clients send: two valid ones that differ in every
\* field after normalisation (one with a string age), and one body for each
\* way a field can be wrong
Bodies ==
  { Obj(NameA, LevelA, Int2(25)),
    Obj(NameB, LevelB, Str(<<"5", " ">>)),
    Obj(NameA, LevelA, Int2(MaxAge)),
    Obj(Str(<<"a", " ">>), LevelA, Int2(25)),
    Obj(Undefined, LevelA, Int2(25)),
    Obj(Int2(55), LevelA, Int2(25)),
    Obj(NameA, Str(<<" ">>), Int2(25)),
    Obj(NameA, LevelA, Undefined),
    Obj(NameA, LevelA, Str(<<"a">>)),
    Obj(NameA, LevelA, Num(5)),
    Obj(NameA, LevelA, Int2(-1)),
    Obj(NameA, LevelA, Int2(MaxAge + 1)),
    Obj(Null, Undefined, JsObject) }

NoBody == NonObj("undefined")

\* ---------------------------------------------------- rows, responses
NoUser == [uuid |-> 0, fullname |-> <<>>, study_level |-> <<>>, age |-> -1]

ParamsNoTrim(uuid, body) ==
  [uuid |-> uuid, fullname |-> body.fullname.s,
   study_level |-> body.study_level.s, age |-> AsInt(body.age)]

\* the parameter list [uuid, fullname.trim(), study_level.trim(), Number(age)]
Params(uuid, body) ==
  [uuid |-> uuid, fullname |-> trim(body.fullname.s),
   study_level |-> trim(body.study_level.s), age |-> AsInt(body.age)]

StorageErr == "ER_STORAGE: internal driver text"
MsgNotFound == "Utilisateur non trouvé"
MsgValidation == "Validation failed"
MsgList == "Unable to list users"
MsgGet == "Error fetching user"
MsgCreate == "Error creating user"
MsgUpdate == "Error updating user"
MsgDelete == "Error deleting user"
MsgUpdated == "Utilisateur mis à jour"
MsgDeleted == "Utilisateur supprimé"

Response(status, error, details, message, user, rows) ==
  [status |-> status, error |-> error, details |-> details,
   message |-> message, user |-> user, rows |-> rows]

LogRecord(level, status, message, stack) ==
  [level |-> level, status |-> status, message |-> message, stack |-> stack]

\* what a handler path produces: the response it sends (sent counts the
\* res.json calls of the path) and the record it logs
Outcome(res, log) == [res |-> res, log |-> log, sent |-> 1]

handleErrorLeaky(err, status, msg) ==
  Outcome(Response(status, err, <<>>, "", NoUser, {}),
          LogRecord("error", status, err, TRUE))

\* handleError(res, context, err, status, msg): logs err.message and err.stack,
\* answers {error: msg}
handleError(err, status, msg) ==
  Outcome(Response(status, msg, <<>>, "", NoUser, {}),
          LogRecord("error", status, err, TRUE))

ValidationFailed(errors, logMsg) ==
  Outcome(Response(400, MsgValidation, errors, "", NoUser, {}),
          LogRecord("warn", 400, logMsg, FALSE))

NotFound(logMsg) ==
  Outcome(Response(404, MsgNotFound, <<>>, "", NoUser, {}),
          LogRecord("warn", 404, logMsg, FALSE))

\* ------------------------------------------------------- statements
\* SELECT * FROM users WHERE uuid = ?
SelectByUuid(rows, uuid) == {r \in rows : r.uuid = uuid}

\* INSERT INTO users ...: uuid is the primary key
InsertFails(rows, row) == \E r \in rows : r.uuid = row.uuid
InsertRow(rows, row) == rows \cup {row}

UpdateRowsUpsert(rows, p) == {r \in rows : r.uuid # p.uuid} \cup {p}

\* UPDATE users SET fullname = ?, study_level = ?, age = ? WHERE uuid = ?
UpdateRows(rows, p) ==
  {IF r.uuid = p.uuid THEN p ELSE r : r \in rows}

\* DELETE FROM users WHERE uuid = ?
DeleteRows(rows, uuid) == {r \in rows : r.uuid # uuid}

AffectedRowsOne(rows, uuid) == 1

\* result.affectedRows of that DELETE
AffectedRows(rows, uuid) == Cardinality(SelectByUuid(rows, uuid))

uuidv4Reuse(used) == Ids

\* uuidv4(): an identifier no earlier call returned
uuidv4(used) == Ids \ used

\* --------------------------------------------------------------- Init
Idle == [busy |-> FALSE, uuid |-> 0, body |-> NoBody, alone |-> TRUE]

NoLast ==
  [op |-> "none", uuid |-> 0, body |-> NoBody,
   res |-> Response(0, "", <<>>, "", NoUser, {}),
   log |-> LogRecord("none", 0, "", FALSE),
   stmts |-> 0, sent |-> 0, threw |-> FALSE, present |-> FALSE,
   alone |-> TRUE, phase |-> "NotStarted"]

\* the table outlives the process (CREATE TABLE IF NOT EXISTS): at process
\* start it is empty or holds rows an earlier run created
SeedUser == [uuid |-> 1, fullname |-> <<"a", "-", "a">>, study_level |-> <<"5">>, age |-> 0]
InitialStores == {{}, {SeedUser}}

InitRequests ==
  /\ users \in InitialStores
  /\ issued = {r.uuid : r \in users}
  /\ pending = [s \in Slots |-> Idle]
  /\ last = NoLast
  /\ reqCount = 0

InitValidator ==
  /\ vIn = NoBody
  /\ vOut = [done |-> FALSE, valid |-> FALSE, errors |-> <<>>]

\* the process has just been started; the listening callback will call
\* initDatabase() with its default arguments
Init ==
  /\ phase = "NotStarted"
  /\ initPc = "try"
  /\ retriesArg = DefaultRetries
  /\ retries = DefaultRetries
  /\ attempts = 0
  /\ listening = FALSE
  /\ InitRequests
  /\ InitValidator

\* app.listen has bound the port and initDatabase has returned from its
\* first attempt
InitReady ==
  /\ phase = "Ready"
  /\ initPc = "try"
  /\ retriesArg = DefaultRetries
  /\ retries = DefaultRetries
  /\ attempts = 1
  /\ listening = TRUE
  /\ InitRequests
  /\ InitValidator

\* ------------------------------------------------------------ startup
\* initPc is the await initDatabase is suspended at: "try" the execute in
\* the try block, "delay" the timer in the catch block. The loop test
\* while (retries) runs in the same turn of the event loop as what precedes
\* it, so it is part of the step that reaches it.

LoopTestNoExit ==
  /\ initPc' = "try"
  /\ phase' = "Connecting"
  /\ listening' = TRUE

\* while (retries): enter the try block (createPool, execute sent), or leave
\* the loop to process.exit(1)
LoopTest ==
  IF retries # 0
    THEN /\ initPc' = "try"
         /\ phase' = "Connecting"
         /\ listening' = TRUE
    ELSE /\ phase' = "Failed"
         /\ listening' = FALSE
         /\ UNCHANGED initPc

\* app.listen(PORT, callback): the port is bound, then the callback calls
\* initDatabase(), which runs to its first await
AppListen ==
  /\ phase = "NotStarted"
  /\ LoopTest
  /\ UNCHANGED <<retriesArg, retries, attempts, users, issued, pending, last,
                 reqCount, vIn, vOut>>

\* CREATE TABLE IF NOT EXISTS settles: it succeeded (initDatabase returns) or
\* it threw (retries -= 1, then the delay starts)
InitAttempt ==
  /\ phase = "Connecting"
  /\ initPc = "try"
  /\ attempts' = attempts + 1
  /\ \E ok \in BOOLEAN :
       IF ok
         THEN /\ phase' = "Ready"
              /\ UNCHANGED <<initPc, retries>>
         ELSE /\ retries' = retries - 1
              /\ initPc' = "delay"
              /\ UNCHANGED phase
  /\ UNCHANGED <<listening, retriesArg, users, issued, pending, last, reqCount,
                 vIn, vOut>>

\* the delay has elapsed: the loop test, then the next attempt or the exit
InitDelayElapsed ==
  /\ phase = "Connecting"
  /\ initPc = "delay"
  /\ LoopTest
  /\ UNCHANGED <<retriesArg, retries, attempts, users, issued, pending, last,
                 reqCount, vIn, vOut>>

\* ----------------------------------------------------------- requests
\* the process is alive and its listener accepts connections
Serving == listening /\ phase # "Failed"
CanReceive == Serving /\ reqCount < MaxRequests

\* every other suspended request has now seen a concurrent request
Concurrent(p, slot) ==
  [s \in Slots |-> IF s # slot /\ p[s].busy THEN [p[s] EXCEPT !.alone = FALSE] ELSE p[s]]

NoneSuspended == \A s \in Slots : ~pending[s].busy

\* the request is answered. History fields: stmts counts the pool.execute
\* calls the handler made, threw tells that one of them threw, present that
\* the row named by uuid was in the table when the request was received,
\* alone that no other request ran between receipt and answer, phase the
\* startup phase at the answer
Answer(op, uuid, body, out, stmts, threw, present, alone) ==
  \E o \in {out} :
    last' = [op |-> op, uuid |-> uuid, body |-> body, res |-> o.res,
             log |-> o.log, stmts |-> stmts, sent |-> o.sent,
             threw |-> threw, present |-> present, alone |-> alone,
             phase |-> phase]

Present(uuid) == SelectByUuid(users, uuid) # {}

\* GET /api/users
ListUsers ==
  /\ CanReceive
  /\ \E ok \in BOOLEAN :
       Answer("list", 0, NoBody,
              IF ok
                THEN Outcome(Response(200, "", <<>>, "", NoUser, users),
                             LogRecord("info", 200, "Listing users", FALSE))
                ELSE handleError(StorageErr, 500, MsgList),
              1, ~ok, FALSE, NoneSuspended)
  /\ reqCount' = reqCount + 1
  /\ pending' = Concurrent(pending, 0)
  /\ UNCHANGED <<startupVars, users, issued, vIn, vOut>>

\* the response of GET /api/users/:uuid when its SELECT returns rows
GetResponse(rows) ==
  IF rows = {}
    THEN NotFound(MsgNotFound)
    ELSE Outcome(Response(200, "", <<>>, "", CHOOSE r \in rows : TRUE, {}),
                 LogRecord("info", 200, "Found user", FALSE))

\* GET /api/users/:uuid
GetUser ==
  /\ CanReceive
  /\ \E uuid \in Ids, ok \in BOOLEAN :
       Answer("get", uuid, NoBody,
              IF ok
                THEN GetResponse(SelectByUuid(users, uuid))
                ELSE handleError(StorageErr, 500, MsgGet),
              1, ~ok, Present(uuid), NoneSuspended)
  /\ reqCount' = reqCount + 1
  /\ pending' = Concurrent(pending, 0)
  /\ UNCHANGED <<startupVars, users, issued, vIn, vOut>>

\* POST /api/users
PostUser ==
  /\ CanReceive
  /\ \E body \in Bodies, ok \in BOOLEAN :
       \E v \in {validateUser(Obj(body.fullname, body.study_level, body.age))} :
           IF ~v.valid
             THEN /\ Answer("create", 0, body,
                            ValidationFailed(v.errors, MsgValidation), 0,
                            FALSE, FALSE, NoneSuspended)
                  /\ UNCHANGED <<users, issued>>
             ELSE \E uuid \in uuidv4(issued) :
                    \E newUser \in {Params(uuid, body)} :
                        /\ issued' = issued \cup {uuid}
                        /\ IF ok /\ ~InsertFails(users, newUser)
                             THEN /\ users' = InsertRow(users, newUser)
                                  /\ Answer("create", 0, body,
                                       Outcome(Response(201, "", <<>>, "", newUser, {}),
                                               LogRecord("info", 201, "Utilisateur créé", FALSE)),
                                       1, FALSE, FALSE, NoneSuspended)
                             ELSE /\ UNCHANGED users
                                  /\ Answer("create", 0, body,
                                       handleError(StorageErr, 500, MsgCreate),
                                       1, TRUE, FALSE, NoneSuspended)
  /\ reqCount' = reqCount + 1
  /\ pending' = Concurrent(pending, 0)
  /\ UNCHANGED <<startupVars, vIn, vOut>>

PutCheckSelectFirst(v, ok, rows) ==
  IF ~ok THEN [kind |-> "threw", stmts |-> 1]
  ELSE IF rows = {} THEN [kind |-> "notfound", stmts |-> 1]
  ELSE IF ~v.valid THEN [kind |-> "invalid", stmts |-> 1]
  ELSE [kind |-> "found", stmts |-> 1]

\* the PUT handler up to its UPDATE: validation first, then the SELECT (ok
\* tells that it did not throw) and the test of its rows
PutCheck(v, ok, rows) ==
  IF ~v.valid THEN [kind |-> "invalid", stmts |-> 0]
  ELSE IF ~ok THEN [kind |-> "threw", stmts |-> 1]
  ELSE IF rows = {} THEN [kind |-> "notfound", stmts |-> 1]
  ELSE [kind |-> "found", stmts |-> 1]

\* the lowest free slot
FreeSlot ==
  CHOOSE s \in Slots : ~pending[s].busy /\ \A t \in Slots : t < s => pending[t].busy

\* PUT /api/users/:uuid up to and including its SELECT; a request that
\* finds its row is suspended at the await of its UPDATE
PutUser ==
  /\ CanReceive
  /\ \E s \in Slots : ~pending[s].busy
  /\ \E uuid \in Ids, body \in Bodies, ok \in BOOLEAN :
       \E v \in {validateUser(Obj(body.fullname, body.study_level, body.age))} :
       \E c \in {PutCheck(v, ok, SelectByUuid(users, uuid))} :
           IF c.kind = "found"
             THEN /\ pending' = [Concurrent(pending, 0) EXCEPT ![FreeSlot] =
                                   [busy |-> TRUE, uuid |-> uuid, body |-> body,
                                    alone |-> NoneSuspended]]
                  /\ UNCHANGED last
             ELSE /\ pending' = Concurrent(pending, 0)
                  /\ Answer("update", uuid, body,
                            CASE c.kind = "invalid" ->
                                   ValidationFailed(v.errors, "Validation failed on update")
                              [] c.kind = "threw" ->
                                   handleError(StorageErr, 500, MsgUpdate)
                              [] OTHER -> NotFound("User to update not found"),
                            c.stmts, c.kind = "threw", Present(uuid), NoneSuspended)
  /\ reqCount' = reqCount + 1
  /\ UNCHANGED <<startupVars, users, issued, vIn, vOut>>

\* PUT /api/users/:uuid from its UPDATE on
PutUserWrite ==
  /\ Serving
  /\ \E s \in Slots, ok \in BOOLEAN :
       /\ pending[s].busy
       /\ \E uuid \in {pending[s].uuid}, body \in {pending[s].body} :
          \E updatedUser \in {Params(uuid, body)} :
              IF ok
                THEN /\ users' = UpdateRows(users, updatedUser)
                     /\ Answer("update", uuid, body,
                               Outcome(Response(200, "", <<>>, MsgUpdated, updatedUser, {}),
                                       LogRecord("info", 200, MsgUpdated, FALSE)),
                               2, FALSE, TRUE, pending[s].alone)
                ELSE /\ UNCHANGED users
                     /\ Answer("update", uuid, body,
                               handleError(StorageErr, 500, MsgUpdate), 2,
                               TRUE, TRUE, pending[s].alone)
       /\ pending' = [Concurrent(pending, s) EXCEPT ![s] = Idle]
  /\ UNCHANGED <<startupVars, issued, reqCount, vIn, vOut>>

\* DELETE /api/users/:uuid
DeleteUser ==
  /\ CanReceive
  /\ \E uuid \in Ids, ok \in BOOLEAN :
       IF ~ok
         THEN /\ UNCHANGED users
              /\ Answer("delete", uuid, NoBody,
                        handleError(StorageErr, 500, MsgDelete), 1, TRUE,
                        Present(uuid), NoneSuspended)
       ELSE /\ users' = DeleteRows(users, uuid)
            /\ Answer("delete", uuid, NoBody,
                      IF AffectedRows(users, uuid) = 0
                        THEN NotFound("User to delete not found")
                        ELSE Outcome(Response(200, "", <<>>, MsgDeleted, NoUser, {}),
                                     LogRecord("info", 200, MsgDeleted, FALSE)),
                      1, FALSE, Present(uuid), NoneSuspended)
  /\ reqCount' = reqCount + 1
  /\ pending' = Concurrent(pending, 0)
  /\ UNCHANGED <<startupVars, issued, vIn, vOut>>

\* ---------------------------------------------------------- validator
\* the values a field of the argument can hold
NameChars == {" ", "a"}

StringsOver(cs, n) == UNION {[1..k -> cs] : k \in 0..n}

NonStrings ==
  {Undefined, Null, JsObject, Bool(TRUE), Bool(FALSE)}
    \cup {Num(h) : h \in {-2, -1, 0, 1, 2, 2 * MaxAge - 1, 2 * MaxAge,
                          2 * MaxAge + 1, 2 * MaxAge + 2}}

NameVals == NonStrings \cup {Str(cs) : cs \in StringsOver(NameChars, MaxNameLen)}
AgeVals == NonStrings \cup {Str(cs) : cs \in StringsOver(Chars, MaxLen)}

ValInputs ==
  {NonObj(k) : k \in {"undefined", "null", "boolean", "number", "string", "array"}}
    \cup {Obj(f, s, a) : f \in NameVals, s \in NameVals, a \in AgeVals}

NotValidated == [done |-> FALSE, valid |-> FALSE, errors |-> <<>>]

InitVal ==
  /\ phase = "NotStarted"
  /\ initPc = "try"
  /\ retriesArg = DefaultRetries
  /\ retries = DefaultRetries
  /\ attempts = 0
  /\ listening = FALSE
  /\ users = {}
  /\ issued = {}
  /\ pending = [s \in Slots |-> Idle]
  /\ last = NoLast
  /\ reqCount = 0
  /\ vIn \in ValInputs
  /\ vOut = NotValidated

\* one call validateUser(vIn)
Validate ==
  /\ ~vOut.done
  /\ LET r == validateUser(vIn)
     IN  vOut' = [done |-> TRUE, valid |-> r.valid, errors |-> r.errors]
  /\ UNCHANGED <<startupVars, users, issued, pending, last, reqCount, vIn>>

ValSpec == InitVal /\ [][Validate]_vars

Next ==
  \/ AppListen
  \/ InitAttempt
  \/ InitDelayElapsed
  \/ ListUsers
  \/ GetUser
  \/ PostUser
  \/ PutUser
  \/ PutUserWrite
  \/ DeleteUser

Spec == Init /\ [][Next]_vars

\* initDatabase(retries, delay) on its own, for each argument retries up to
\* MaxRetriesArg (the default is among them)
InitDb ==
  /\ phase = "NotStarted"
  /\ initPc = "try"
  /\ retriesArg \in 0..MaxRetriesArg
  /\ retries = retriesArg
  /\ attempts = 0
  /\ listening = FALSE
  /\ InitRequests
  /\ InitValidator

NextInitDb ==
  \/ AppListen
  \/ InitAttempt
  \/ InitDelayElapsed

\* the event loop runs every callback that is ready: the listening callback,
\* the settled promise of an attempt, the elapsed timer of the delay
InitDbSpec ==
  /\ InitDb
  /\ [][NextInitDb]_vars
  /\ WF_vars(AppListen)
  /\ WF_vars(InitAttempt)
  /\ WF_vars(InitDelayElapsed)

\* the request handlers of a server whose startup has succeeded
NextReady ==
  \/ ListUsers
  \/ GetUser
  \/ PostUser
  \/ PutUser
  \/ PutUserWrite
  \/ DeleteUser

ReadySpec == InitReady /\ [][NextReady]_vars

\* ------------------------------------------------------------- claims
\* the record a valid body is stored as
Normalized(uuid, body) ==
  [uuid |-> uuid, fullname |-> trim(body.fullname.s),
   study_level |-> trim(body.study_level.s), age |-> Number(body.age).h \div 2]

BodyValid(body) == validateUser(body).valid
UuidsOf(rows) == {r.uuid : r \in rows}

\* the step answers a request
Answers ==
  \/ reqCount' # reqCount /\ \A s \in Slots : pending'[s].busy => pending[s].busy
  \/ \E s \in Slots : pending[s].busy /\ ~pending'[s].busy

\* C1: the listener is open only once initDatabase has succeeded: while
\* startup is Connecting the port is not bound and no request is answered,
\* and an execution that ends in Failed has answered no request.
C1_ListenOnlyWhenReady ==
  /\ listening => phase = "Ready"
  /\ last.op # "none" => last.phase = "Ready"
  /\ phase = "Failed" => last.op = "none"

\* C2: initDatabase(retries, delay) terminates: it makes at most retries
\* attempts, a failed attempt is followed by the delay before the next one,
\* a successful attempt ends it at once (Ready, no further attempt), it ends
\* in Failed exactly after retries failed attempts, Failed is final, and one
\* of Ready and Failed is eventually reached.
C2_InitDatabaseTerminates ==
  /\ [](attempts <= retriesArg)
  /\ [](phase = "Failed" => attempts = retriesArg /\ retries = 0)
  /\ [][attempts' # attempts =>
          /\ attempts' = attempts + 1
          /\ initPc = "try"
          /\ (phase' = "Ready" \/ initPc' = "delay")]_vars
  /\ [][phase = "Ready" => phase' = "Ready" /\ attempts' = attempts]_vars
  /\ [][phase = "Failed" => phase' = "Failed"]_vars
  /\ <>(phase \in {"Ready", "Failed"})

C2_AllAttemptsFailed ==
  phase = "Failed" /\ attempts = retriesArg /\ retriesArg = DefaultRetries

\* C3: round trip without concurrent requests: after a create answered 201
\* a get of the returned id answers 200 with the normalized input, after an
\* update answered 200 a get of the id answers 200 with the normalized
\* second record under the same id, after a delete answered 200 a get of the
\* id answers 404.
C3_RoundTrip ==
  LET get(uuid) == GetResponse(SelectByUuid(users, uuid)).res
  IN  /\ (last.op = "create" /\ last.res.status = 201 /\ last.alone) =>
           /\ get(last.res.user.uuid).status = 200
           /\ get(last.res.user.uuid).user = Normalized(last.res.user.uuid, last.body)
      /\ (last.op = "update" /\ last.res.status = 200 /\ last.alone) =>
           /\ get(last.uuid).status = 200
           /\ get(last.uuid).user = Normalized(last.uuid, last.body)
           /\ last.res.user = Normalized(last.uuid, last.body)
      /\ (last.op = "delete" /\ last.res.status = 200 /\ last.alone) =>
           get(last.uuid).status = 404

C3_UpdatedThenRead ==
  /\ last.op = "update" /\ last.res.status = 200 /\ last.alone
  /\ last.body.age.t = "string"
  /\ trim(last.body.study_level.s) # last.body.study_level.s
  /\ Normalized(last.uuid, last.body) \in users

\* C4 as stated, with every storage statement succeeding: get, update and
\* delete of an id that is not in the store always answer 404.
C4_AbsentAlways404 ==
  (last.op \in {"get", "update", "delete"} /\ ~last.present /\ ~last.threw) =>
    last.res.status = 404

\* C4 amended: get, update and delete of an id that is not in the store when
\* the request is received answer 404 with the not-found message, provided
\* that no storage statement throws and that, for update, the body passes
\* validation.
C4_AbsentIs404 ==
  ( /\ last.op \in {"get", "update", "delete"}
    /\ ~last.present
    /\ ~last.threw
    /\ last.op = "update" => BodyValid(last.body) ) =>
    /\ last.res.status = 404
    /\ last.res.error = MsgNotFound

C4_SecondDelete ==
  /\ last.op = "delete" /\ last.res.status = 404
  /\ last.uuid \in issued /\ ~last.present /\ ~last.threw

\* C5: on create and update a body that fails validation is answered 400
\* with the validator's error list before any statement is issued, whether
\* or not the target id exists, and the step leaves the store unchanged.
C5_ValidationFirst ==
  /\ []((last.op \in {"create", "update"} /\ ~BodyValid(last.body)) =>
          /\ last.res.status = 400
          /\ last.res.details = validateUser(last.body).errors
          /\ last.stmts = 0)
  /\ [][(Answers /\ last'.res.status = 400) => users' = users /\ last'.stmts = 0]_vars

C5_InvalidUpdateOfExisting ==
  /\ last.op = "update" /\ last.res.status = 400 /\ last.present
  /\ last.stmts = 0

AgeBad(age) ==
  \/ age.t \in {"undefined", "null"}
  \/ Number(age).nan
  \/ Number(age).h % 2 # 0
  \/ Number(age).h < 0
  \/ Number(age).h > 300

NameBad(v, min) == v.t # "string" \/ Len(trim(v.s)) < min

Mentions(details, msgs) == \E i \in 1..Len(details) : details[i] \in msgs

\* C6: on create and update a body whose age is absent, not a number,
\* non-integer, negative or above 150 is answered 400 with an age error, a
\* body whose fullname is no string or trims to fewer than 2 characters is
\* answered 400 with the fullname error, nothing being written; a body is
\* accepted only with a string fullname of trimmed length >= 2, a string
\* study_level of trimmed length >= 1 and an integer age in 0..150.
C6_FieldRules ==
  (last.op \in {"create", "update"}) =>
    /\ AgeBad(last.body.age) =>
         /\ last.res.status = 400
         /\ Mentions(last.res.details, {ErrAgeNumber, ErrAgeRange})
         /\ last.stmts = 0
    /\ NameBad(last.body.fullname, 2) =>
         /\ last.res.status = 400
         /\ Mentions(last.res.details, {ErrFullname})
         /\ last.stmts = 0
    /\ last.res.status # 400 =>
         /\ ~NameBad(last.body.fullname, 2)
         /\ ~NameBad(last.body.study_level, 1)
         /\ ~AgeBad(last.body.age)

C6_AgeAboveRangeRejected ==
  /\ last.op = "create" /\ last.res.status = 400
  /\ Number(last.body.age).h = 2 * (MaxAge + 1)
  /\ last.res.details = <<ErrAgeRange>>

\* C7: validateUser collects every violation: for an object argument the
\* error list holds one message for each violated field among fullname,
\* study_level and age, in that order, and valid is true exactly when the
\* list is empty; any other argument yields the single error 'Payload
\* invalid'.
C7_AllViolationsCollected ==
  vOut.done =>
    IF vIn.kind \in {"object", "array"}
      THEN /\ vOut.errors =
                (IF NameBad(vIn.fullname, 2) THEN <<ErrFullname>> ELSE <<>>)
                  \o (IF NameBad(vIn.study_level, 1) THEN <<ErrStudyLevel>> ELSE <<>>)
                  \o (IF vIn.age.t \in {"undefined", "null"} \/ Number(vIn.age).nan
                        THEN <<ErrAgeNumber>>
                        ELSE IF AgeBad(vIn.age) THEN <<ErrAgeRange>> ELSE <<>>)
           /\ vOut.valid = (vOut.errors = <<>>)
      ELSE vOut.errors = <<ErrPayload>> /\ ~vOut.valid

C7_ThreeViolations ==
  /\ vOut.done /\ vIn.kind = "object"
  /\ vOut.errors = <<ErrFullname, ErrStudyLevel, ErrAgeRange>>

FixedMessage(op) ==
  CASE op = "list" -> MsgList
    [] op = "get" -> MsgGet
    [] op = "create" -> MsgCreate
    [] op = "update" -> MsgUpdate
    [] op = "delete" -> MsgDelete

\* C8: when a storage statement throws in one of the five resource
\* handlers, the request is answered 500 with the operation's fixed message,
\* the error's text appears only in the log record (error level, with the
\* stack), never in the response body, and one response is sent.
C8_StorageFailureIs500 ==
  last.threw =>
    /\ last.res.status = 500
    /\ last.res.error = FixedMessage(last.op)
    /\ last.res.error # StorageErr /\ last.res.message # StorageErr
    /\ last.res.details = <<>> /\ last.res.user = NoUser /\ last.res.rows = {}
    /\ last.log = LogRecord("error", 500, StorageErr, TRUE)
    /\ last.sent = 1

C8_UpdateStatementThrew ==
  last.threw /\ last.op = "update" /\ last.stmts = 2 /\ last.res.status = 500

RowValid(r) ==
  /\ r.uuid \in Ids
  /\ BodyValid(Obj(Str(r.fullname), Str(r.study_level), Int2(r.age)))
  /\ trim(r.fullname) = r.fullname /\ trim(r.study_level) = r.study_level

\* C9: in every state of the store no two rows share an id and every row
\* holds a fullname, a study_level and an age that pass validation as they
\* are stored; an update leaves the set of ids and every other row as they
\* were; a create answered 201 returns an id no earlier create returned.
C9_StoreInvariants ==
  /\ [](/\ Cardinality(UuidsOf(users)) = Cardinality(users)
        /\ \A r \in users : RowValid(r))
  /\ [][(Answers /\ last'.op = "update") =>
          /\ UuidsOf(users') = UuidsOf(users)
          /\ \A r \in users : r.uuid # last'.uuid => r \in users']_vars
  /\ [][(Answers /\ last'.op = "create" /\ last'.res.status = 201) =>
          /\ last'.res.user.uuid \notin issued
          /\ last'.res.user.uuid \notin UuidsOf(users)
          /\ last'.res.user \in users']_vars

C9_TwoRows ==
  /\ Cardinality(users) = 2
  /\ last.op = "create" /\ last.res.status = 201

\* C10: the SELECT and the UPDATE of an update are separate statements: when
\* the row is deleted between them the update still answers 200 with the
\* updated record and the row stays absent; when the row is deleted before
\* the SELECT the update answers 404; no update step adds a row.
C10_UpdateDeleteRace ==
  /\ [][\A s \in Slots :
          ( /\ pending[s].busy /\ ~pending'[s].busy
            /\ ~Present(pending[s].uuid)
            /\ ~last'.threw ) =>
            /\ last'.res.status = 200
            /\ last'.res.user = Normalized(pending[s].uuid, pending[s].body)
            /\ users' = users]_vars
  /\ []((last.op = "update" /\ ~last.present /\ ~last.threw /\ BodyValid(last.body)) =>
          last.res.status = 404 /\ last.stmts = 1)
  /\ [][(Answers /\ last'.op = "update") => UuidsOf(users') \subseteq UuidsOf(users)]_vars

C10_StaleUpdate ==
  /\ last.op = "update" /\ last.res.status = 200 /\ ~last.alone
  /\ last.uuid \notin UuidsOf(users)

=============================================================================
